---- MODULE Spec2Model ----
(***************************************************************************)
(* Model of src/main.py: the /parse-pdf endpoint (parse_pdf), the          *)
(* AMDProcessor pipeline (construction, GPU/CPU preprocessing, OCR loop)   *)
(* and the post-OCR text correction (_correct_text).                       *)
(*                                                                         *)
(* Text is a sequence of one-character strings.  An image is a row-major   *)
(* sequence of uint8 pixels.  The temp file lives in a POSIX-like file     *)
(* system: a path linked to an inode, inodes that survive unlinking while  *)
(* a descriptor is open on them.                                           *)
(***************************************************************************)
EXTENDS Integers, Sequences, FiniteSets, TLC

\* ------------------------------------------------------------------ bounds
NumReq == 2        \* concurrent parse_pdf requests
MaxPages == 2      \* pages of an uploaded document
MaxFrags == 4      \* fragments concatenated into an input text of _correct_text
ImgW == 3          \* image width in the preprocessing specification
ImgH == 3          \* image height in the preprocessing specification

VARIABLES
  req,        \* per request: the locals of its parse_pdf coroutine
  current,    \* the request the event loop is executing (0: loop idle)
  fsLink,     \* inode linked at temp_path "temp_pdf.pdf" (0: path absent)
  fsData,     \* inode -> bytes
  ctext,      \* _correct_text: the argument
  cout,       \* _correct_text: the returned text
  cpc,        \* _correct_text: "in" | "out"
  img,        \* preprocessing: the page image handed to _gpu_preprocess
  pout,       \* preprocessing: the returned image and how it was made
  ppc         \* preprocessing: "in" | "out"
              \* (the last six are "idle"/empty outside their own specification)

vars == <<req, current, fsLink, fsData, ctext, cout, cpc, img, pout, ppc>>

\* ------------------------------------------------------------------- text
Max(S) == CHOOSE x \in S : \A y \in S : y <= x

Whitespace == {" ", "\t", "\n"}
Digits == {"0", "1", "2", "3", "4", "5", "6", "7", "8", "9"}

\* One pattern element: a character class, possibly under "+".
One(c) == [set |-> {c}, plus |-> FALSE]
Cls(S) == [set |-> S, plus |-> FALSE]
Plus(S) == [set |-> S, plus |-> TRUE]

\* A literal word as a sequence of single-character classes.
Lit(w) == [i \in 1..Len(w) |-> One(w[i])]

\* Length of the maximal run of characters of S in text starting at i.
RECURSIVE RunLen(_, _, _)
RunLen(S, text, i) ==
  IF i <= Len(text) /\ text[i] \in S THEN 1 + RunLen(S, text, i + 1) ELSE 0

\* re's backtracking matcher: the end position (exclusive) of the match of
\* pat[k..] anchored at i, greedy for "+", or -1 when there is none.
RECURSIVE MatchEnd(_, _, _, _)
MatchEnd(pat, k, text, i) ==
  IF k > Len(pat) THEN i
  ELSE IF pat[k].plus
    THEN LET run == RunLen(pat[k].set, text, i)
             ok == {n \in 1..run : MatchEnd(pat, k + 1, text, i + n) # -1}
         IN IF ok = {} THEN -1 ELSE MatchEnd(pat, k + 1, text, i + Max(ok))
    ELSE IF i <= Len(text) /\ text[i] \in pat[k].set
      THEN MatchEnd(pat, k + 1, text, i + 1)
      ELSE -1

\* A replacement template item: a literal character, or a group reference
\* \g covering the pattern elements first..last (the one pattern with groups
\* has no "+", so element k of the match is character i + k - 1).
Chr(c) == [grp |-> FALSE, chr |-> c, first |-> 0, last |-> 0]
Grp(a, b) == [grp |-> TRUE, chr |-> "", first |-> a, last |-> b]
Chars(w) == [i \in 1..Len(w) |-> Chr(w[i])]

\* Expansion of a replacement template for the match that starts at text[i].
RECURSIVE Expand(_, _, _)
Expand(repl, text, i) ==
  IF repl = <<>> THEN <<>>
  ELSE LET h == Head(repl)
       IN (IF h.grp THEN SubSeq(text, i + h.first - 1, i + h.last - 1) ELSE <<h.chr>>)
          \o Expand(Tail(repl), text, i)

\* re.sub(pattern, repl, text): leftmost non-overlapping matches replaced.
RECURSIVE SubFrom(_, _, _)
SubFrom(rule, text, i) ==
  IF i > Len(text) THEN <<>>
  ELSE LET e == MatchEnd(rule.pat, 1, text, i)
       IN IF e = -1
            THEN <<text[i]>> \o SubFrom(rule, text, i + 1)
            ELSE Expand(rule.repl, text, i) \o SubFrom(rule, text, e)

re_sub(rule, text) == SubFrom(rule, text, 1)

GOVERNO == <<"G", "O", "V", "E", "R", "N", "O">>
ESTAD == <<"E", "S", "T", "A", "D">>
MATR == <<"M", "A", "T", "R">>
CULA == <<"C", "U", "L", "A">>
Contra == <<"C", "o", "n", "t", "r", "a">>
heque == <<"h", "e", "q", "u", "e">>

\* The corrections dict of _correct_text, in insertion order.
corrections == <<
  [pat |-> Lit(GOVERNO) \o <<Plus(Whitespace), One("D"), Cls({"E", "O"}), Plus(Whitespace)>>
             \o Lit(ESTAD) \o <<Cls({"O", "A"})>>,
   repl |-> Chars(GOVERNO \o <<" ", "D", "O", " ">> \o ESTAD \o <<"O">>)],
  [pat |-> Lit(MATR) \o <<Cls({"Í", "I"})>> \o Lit(CULA),
   repl |-> Chars(MATR \o <<"Í">> \o CULA)],
  [pat |-> <<Cls(Digits), Cls(Digits), One("/"), Cls(Digits), Cls(Digits), Cls(Digits), Cls(Digits)>>,
   repl |-> <<Grp(1, 2), Chr("/"), Grp(4, 7)>>],
  [pat |-> Lit(Contra) \o <<Cls({"ç", "c"})>> \o Lit(heque),
   repl |-> Chars(Contra \o <<"c">> \o heque)] >>

\* The loop of _correct_text from rule k on: text = re.sub(pattern, repl, text).
RECURSIVE CorrectFrom(_, _)
CorrectFrom(k, text) ==
  IF k > Len(corrections) THEN text
  ELSE CorrectFrom(k + 1, re_sub(corrections[k], text))

\* A faulty variant: every rule is applied to the original text, the last one wins.
CorrectEachOnOriginal(text) == re_sub(corrections[Len(corrections)], text)

_correct_text(text) == CorrectFrom(1, text)

\* ----------------------------------------------- _correct_text on its own
\* Input texts: up to MaxFrags fragments, chosen so that every rule matches
\* and several rules match in one text.
Fragments == {
  GOVERNO,
  <<" ", "D", "E", "\n">>,
  ESTAD \o <<"A">>,
  GOVERNO \o <<"\t", " ", "D", "O", " ">> \o ESTAD \o <<"A", " ">>,
  MATR \o <<"I">> \o CULA,
  <<"1", "2", "/", "2", "0", "2", "4">>,
  Contra \o <<"ç">> \o heque,
  <<"1">> }

RECURSIVE TextsOf(_)
TextsOf(n) ==
  IF n = 0 THEN {<<>>}
  ELSE LET shorter == TextsOf(n - 1)
       IN shorter \cup {t \o f : t \in shorter, f \in Fragments}

NoImage == <<>>
NoOut == [path |-> "none", final |-> <<>>]

PreprocessIdle == img = NoImage /\ pout = NoOut /\ ppc = "idle"
CorrectIdle == ctext = <<>> /\ cout = <<>> /\ cpc = "idle"
ServerIdle ==
  /\ req = <<>>
  /\ current = 0
  /\ fsLink = 0
  /\ fsData = <<>>

InitCorrect ==
  /\ ctext \in TextsOf(MaxFrags)
  /\ cout = <<>>
  /\ cpc = "in"
  /\ ServerIdle
  /\ PreprocessIdle

\* One call of _correct_text.
CorrectText ==
  /\ cpc = "in"
  /\ cout' = _correct_text(ctext)
  /\ cpc' = "out"
  /\ UNCHANGED <<req, current, fsLink, fsData, ctext, img, pout, ppc>>

NextCorrect == CorrectText

SpecCorrect == InitCorrect /\ [][NextCorrect]_vars

Rule(k, text) == re_sub(corrections[k], text)

\* C8: the text _correct_text returns is the left-to-right composition of
\* the four rules, each applied to the whole output of the previous one, and
\* is a function of the input text alone.
C8_SequentialRules ==
  cpc = "out" => cout = Rule(4, Rule(3, Rule(2, Rule(1, ctext))))

\* A text in which rule 1 and rule 2 both act; the corrected text carries
\* both substitutions.
C8_Witness ==
  /\ cpc = "out"
  /\ ctext = GOVERNO \o <<" ", "D", "E", "\n">> \o ESTAD \o <<"A">> \o MATR \o <<"I">> \o CULA
  /\ cout = GOVERNO \o <<" ", "D", "O", " ">> \o ESTAD \o <<"O">> \o MATR \o <<"Í">> \o CULA

\* ------------------------------------------- _gpu_preprocess on its own
\* extract_text rasterizes with grayscale=True, so np.array(image) has two
\* dimensions and the cvtColor branch is not taken: an image is ImgW x ImgH
\* gray pixels, pixel (x, y) at index y * width + x (0-based), as in the
\* kernels.
ThresholdValue == 128
PixelValues == {0, 255}
Pixels == 1..(ImgW * ImgH)
Images == [Pixels -> PixelValues]
XOf(p) == (p - 1) % ImgW
YOf(p) == (p - 1) \div ImgW
At(x, y) == y * ImgW + x + 1
Interior(p) == XOf(p) >= 1 /\ XOf(p) < ImgW - 1 /\ YOf(p) >= 1 /\ YOf(p) < ImgH - 1

Sum9(input, p) ==
  LET v(i, j) == input[At(XOf(p) + i, YOf(p) + j)]
  IN v(-1, -1) + v(0, -1) + v(1, -1) + v(-1, 0) + v(0, 0) + v(1, 0)
     + v(-1, 1) + v(0, 1) + v(1, 1)

\* The denoise kernel: interior pixels get the 3x3 mean, the others are not
\* written and keep what the output buffer held.
DenoiseKernel(input, output) ==
  [p \in Pixels |-> IF Interior(p) THEN Sum9(input, p) \div 9 ELSE output[p]]

\* The threshold kernel: every pixel is written.
ThresholdKernel(input, output, threshold_value) ==
  [p \in Pixels |-> IF input[p] > threshold_value THEN 255 ELSE 0]

\* The try block of _gpu_preprocess.  output_buf is created without host
\* data: garbage is what it holds before the first kernel writes it.  Both
\* kernels are enqueued with input_buf as their input; denoised is copied
\* out of output_buf and not used again.
GpuPipeline(img_array, garbage) ==
  LET input_buf == img_array
      output_buf0 == garbage
      output_buf1 == DenoiseKernel(input_buf, output_buf0)
      denoised == output_buf1
      output_buf2 == ThresholdKernel(input_buf, output_buf1, ThresholdValue)
      final == output_buf2
  IN [path |-> "gpu", final |-> final]

\* _cpu_preprocess: fastNlMeansDenoising and the Otsu threshold are cv2's;
\* THRESH_BINARY leaves every pixel 0 or 255, which is all that is assumed
\* of the returned image.
CpuResults(img_array) == [Pixels -> {0, 255}]

InitPreprocess ==
  /\ img \in Images
  /\ pout = NoOut
  /\ ppc = "in"
  /\ ServerIdle
  /\ CorrectIdle

\* _gpu_preprocess, no OpenCL call raising.
GpuPreprocess ==
  /\ ppc = "in"
  /\ \E g \in PixelValues : pout' = GpuPipeline(img, [p \in Pixels |-> g])
  /\ ppc' = "out"
  /\ UNCHANGED <<req, current, fsLink, fsData, ctext, cout, cpc, img>>

\* _gpu_preprocess, an OpenCL call raising: the except clause returns
\* _cpu_preprocess(image).
GpuPreprocessFallback ==
  /\ ppc = "in"
  /\ \E threshold \in CpuResults(img) : pout' = [path |-> "cpu", final |-> threshold]
  /\ ppc' = "out"
  /\ UNCHANGED <<req, current, fsLink, fsData, ctext, cout, cpc, img>>

NextPreprocess == GpuPreprocess \/ GpuPreprocessFallback

SpecPreprocess == InitPreprocess /\ [][NextPreprocess]_vars

\* The value the denoise kernel computes for an interior pixel, binarized.
BinarizedDenoised(image, p) ==
  IF Sum9(image, p) \div 9 > ThresholdValue THEN 255 ELSE 0

\* C9: on the accelerated path the image that is binarized is the denoised
\* image: every pixel the denoise kernel computes appears in the returned
\* image binarized from its denoised value.
C9_BinarizeConsumesDenoised ==
  (ppc = "out" /\ pout.path = "gpu") =>
    \A p \in Pixels : Interior(p) => pout.final[p] = BinarizedDenoised(img, p)

\* ------------------------------------------------------ the /parse-pdf server
Req == 1..NumReq
Inodes == 1..NumReq
TextLimit == 1000
\* Length of the native text layer from which a document counts as text-native.
NativeThreshold == 50

\* Uploaded bytes: whether they are a PDF, its page count and the length of
\* its native text layer; owner tells the uploads of two requests apart.
\* A request uploads a scanned PDF of 1..MaxPages pages, a one-page
\* text-native PDF, or bytes that are no PDF.
EmptyBytes == [owner |-> 0, pdf |-> FALSE, npages |-> 0, native |-> 0]
Uploads(r) ==
  [owner : {r}, pdf : {TRUE}, npages : 1..MaxPages, native : {0}]
  \cup {[owner |-> r, pdf |-> TRUE, npages |-> 1, native |-> NativeThreshold],
        [owner |-> r, pdf |-> FALSE, npages |-> 0, native |-> 0]}

\* What pytesseract.image_to_string may return for a page.
OcrTexts == {<<>>, MATR \o <<"I">> \o CULA \o <<"\n">>}

\* self._correct_text(text) for each text OCR may return.
Corrected == [t \in OcrTexts |-> _correct_text(t)]

NoExc == [type |-> "none", status_code |-> 0]
Exception == [type |-> "Exception", status_code |-> 0]
HTTPException(status_code) == [type |-> "HTTPException", status_code |-> status_code]

NoRaster == [called |-> FALSE, found |-> FALSE, bytes |-> EmptyBytes]

\* The locals of a parse_pdf call that has not started.
Locals(upload) ==
  [pc |-> "start", upload |-> upload, fd |-> 0, exc |-> NoExc, raisedIn |-> "none",
   raster |-> NoRaster, images |-> <<>>, log |-> <<>>, full_text |-> <<>>,
   result |-> <<>>, status |-> 0]

Init ==
  /\ \E u \in [Req -> UNION {Uploads(r) : r \in Req}] :
       /\ \A r \in Req : u[r] \in Uploads(r)
       /\ req = [r \in Req |-> Locals(u[r])]
  /\ current = 0
  /\ fsLink = 0
  /\ fsData = [i \in Inodes |-> EmptyBytes]
  /\ CorrectIdle
  /\ PreprocessIdle

UNCHANGED_pure == UNCHANGED <<ctext, cout, cpc, img, pout, ppc>>

\* An inode that is neither linked nor open is gone.
Reap(data, link, reqs) ==
  [i \in Inodes |->
     IF i = link \/ \E r \in Req : reqs[r].fd = i THEN data[i] ELSE EmptyBytes]

FreeInode == CHOOSE i \in Inodes :
  /\ i # fsLink /\ \A r \in Req : req[r].fd # i
  /\ \A j \in Inodes : (j # fsLink /\ \A r \in Req : req[r].fd # j) => i <= j

\* A faulty variant: extract_text lets the exception through.
ExtractTextReraise(e) == e

\* except Exception in extract_text: whatever was raised becomes a 400.
ExtractTextExcept(e) == HTTPException(400)

\* except HTTPException: raise / except Exception: 500, in parse_pdf.
ParsePdfExcept(e) ==
  IF e.type = "HTTPException" THEN e ELSE HTTPException(500)

\* full_text += self._correct_text(text) + "\n"
PrependPage(full_text, corrected) == corrected \o <<"\n">> \o full_text

AppendPage(full_text, corrected) == full_text \o corrected \o <<"\n">>

\* text.count(sub) for a two-character sub: non-overlapping occurrences.
RECURSIVE CountFrom(_, _, _)
CountFrom(text, sub, i) ==
  IF i + 1 > Len(text) THEN 0
  ELSE IF text[i] = sub[1] /\ text[i + 1] = sub[2]
    THEN 1 + CountFrom(text, sub, i + 2)
    ELSE CountFrom(text, sub, i + 1)

\* The result dict of parse_pdf.
Result(text) ==
  [text |-> SubSeq(text, 1, IF Len(text) < TextLimit THEN Len(text) ELSE TextLimit)
            \o (IF Len(text) > TextLimit THEN <<".", ".", ".">> ELSE <<>>),
   pages |-> CountFrom(text, <<"\n", "\n">>, 1) + 1]

\* with open(temp_path, "wb") as f: the path is created or truncated; then
\* the coroutine is suspended at await file.read().
Open(r) ==
  /\ current = 0
  /\ req[r].pc = "start"
  /\ LET ino == IF fsLink = 0 THEN FreeInode ELSE fsLink
     IN /\ fsLink' = ino
        /\ fsData' = [fsData EXCEPT ![ino] = EmptyBytes]
        /\ req' = [req EXCEPT ![r].pc = "reading", ![r].fd = ino]
  /\ UNCHANGED current
  /\ UNCHANGED_pure

\* file.read() returns: f.write(bytes), the with block closes f.
ReadReturn(r) ==
  /\ current = 0
  /\ req[r].pc = "reading"
  /\ req' = [req EXCEPT ![r].pc = "construct", ![r].fd = 0]
  /\ fsData' = Reap([fsData EXCEPT ![req[r].fd] = req[r].upload], fsLink, req')
  /\ current' = r
  /\ UNCHANGED fsLink
  /\ UNCHANGED_pure

\* file.read() (or f.write) raises: the with block closes f.
ReadRaise(r) ==
  /\ current = 0
  /\ req[r].pc = "reading"
  /\ req' = [req EXCEPT ![r].pc = "except", ![r].fd = 0, ![r].exc = Exception,
                        ![r].raisedIn = "read"]
  /\ fsData' = Reap(fsData, fsLink, req')
  /\ current' = r
  /\ UNCHANGED fsLink
  /\ UNCHANGED_pure

\* AMDProcessor(): platform, context, queue, kernels, OCR configuration.
ConstructOk(r) ==
  /\ current = r
  /\ req[r].pc = "construct"
  /\ req' = [req EXCEPT ![r].pc = "extract"]
  /\ UNCHANGED <<current, fsLink, fsData>>
  /\ UNCHANGED_pure

\* AMDProcessor(): no OpenCL platform or GPU device, or a kernel that does
\* not build; __init__ logs and re-raises.
ConstructRaise(r) ==
  /\ current = r
  /\ req[r].pc = "construct"
  /\ req' = [req EXCEPT ![r].pc = "except", ![r].exc = Exception,
                        ![r].raisedIn = "construct"]
  /\ UNCHANGED <<current, fsLink, fsData>>
  /\ UNCHANGED_pure

\* What convert_from_path(temp_path) finds at the path.
AtPath == [called |-> TRUE, found |-> fsLink # 0,
           bytes |-> IF fsLink # 0 THEN fsData[fsLink] ELSE EmptyBytes]

\* extract_text: convert_from_path returns the pages of the PDF at the path.
RasterizeOk(r) ==
  /\ current = r
  /\ req[r].pc = "extract"
  /\ AtPath.found /\ AtPath.bytes.pdf
  /\ req' = [req EXCEPT ![r].pc = "pages", ![r].raster = AtPath,
                        ![r].images = [i \in 1..AtPath.bytes.npages |->
                                         [owner |-> AtPath.bytes.owner, page |-> i]],
                        ![r].full_text = <<>>]
  /\ UNCHANGED <<current, fsLink, fsData>>
  /\ UNCHANGED_pure

\* extract_text: convert_from_path raises (no file at the path, or bytes
\* that are not a PDF).
RasterizeRaise(r) ==
  /\ current = r
  /\ req[r].pc = "extract"
  /\ ~(AtPath.found /\ AtPath.bytes.pdf)
  /\ req' = [req EXCEPT ![r].pc = "except", ![r].raster = AtPath,
                        ![r].exc = ExtractTextExcept(Exception),
                        ![r].raisedIn = "rasterize"]
  /\ UNCHANGED <<current, fsLink, fsData>>
  /\ UNCHANGED_pure

\* One iteration of for img in images: _gpu_preprocess (the GPU try block,
\* and _cpu_preprocess when it raises), image_to_string, _correct_text.
Page(r) ==
  /\ current = r
  /\ req[r].pc = "pages"
  /\ Len(req[r].log) < Len(req[r].images)
  /\ \E gpu \in {"ok", "failed"}, text \in OcrTexts :
       req' = [req EXCEPT
                 ![r].log = Append(@, [page |-> req[r].images[Len(req[r].log) + 1],
                                       gpu |-> gpu,
                                       path |-> IF gpu = "ok" THEN "gpu" ELSE "cpu",
                                       text |-> text]),
                 ![r].full_text = AppendPage(@, Corrected[text])]
  /\ UNCHANGED <<current, fsLink, fsData>>
  /\ UNCHANGED_pure

\* An iteration that raises: _cpu_preprocess after the GPU block failed, or
\* image_to_string.
PageRaise(r) ==
  /\ current = r
  /\ req[r].pc = "pages"
  /\ Len(req[r].log) < Len(req[r].images)
  /\ \E where \in {"preprocess", "ocr"} :
       req' = [req EXCEPT ![r].pc = "except", ![r].exc = ExtractTextExcept(Exception),
                          ![r].raisedIn = where]
  /\ UNCHANGED <<current, fsLink, fsData>>
  /\ UNCHANGED_pure

\* extract_text returns full_text; parse_pdf builds and returns result.
Return(r) ==
  /\ current = r
  /\ req[r].pc = "pages"
  /\ Len(req[r].log) = Len(req[r].images)
  /\ req' = [req EXCEPT ![r].pc = "finally", ![r].result = Result(req[r].full_text),
                        ![r].status = 200]
  /\ UNCHANGED <<current, fsLink, fsData>>
  /\ UNCHANGED_pure

\* The except clauses of parse_pdf.
Except(r) ==
  /\ current = r
  /\ req[r].pc = "except"
  /\ req' = [req EXCEPT ![r].pc = "finally", ![r].exc = ParsePdfExcept(@),
                        ![r].status = ParsePdfExcept(req[r].exc).status_code]
  /\ UNCHANGED <<current, fsLink, fsData>>
  /\ UNCHANGED_pure

\* A faulty variant: the removal sits at the end of the try block, not in finally.
TempRemovedOnSuccess(r) == IF req[r].status = 200 THEN 0 ELSE fsLink

\* if os.path.exists(temp_path): os.remove(temp_path)
TempAfterFinally(r) == IF fsLink # 0 THEN 0 ELSE fsLink

\* The finally clause; the response leaves and the locals are dropped (the
\* status sent and where the failure arose are kept for the record).
Finally(r) ==
  /\ current = r
  /\ req[r].pc = "finally"
  /\ fsLink' = TempAfterFinally(r)
  /\ fsData' = Reap(fsData, fsLink', req)
  /\ req' = [req EXCEPT ![r] = [Locals(req[r].upload) EXCEPT
                                  !.pc = "done", !.status = req[r].status,
                                  !.raisedIn = req[r].raisedIn]]
  /\ current' = 0
  /\ UNCHANGED_pure

Next ==
  \E r \in Req :
    \/ Open(r)
    \/ ReadReturn(r)
    \/ ReadRaise(r)
    \/ ConstructOk(r)
    \/ ConstructRaise(r)
    \/ RasterizeOk(r)
    \/ RasterizeRaise(r)
    \/ Page(r)
    \/ PageRaise(r)
    \/ Return(r)
    \/ Except(r)
    \/ Finally(r)

Spec == Init /\ [][Next]_vars

\* ------------------------------------------------------------------ claims
Done(r) == req[r].pc = "done"
Returning(r) == req[r].pc = "finally" /\ req[r].status = 200

\* C1: every request fares as it would alone: the bytes it rasterizes are
\* never another request's, and an uploaded PDF is always found at temp_path
\* and rasterized, whatever the other requests wrote, truncated or removed.
C1_Isolation ==
  \A r \in Req :
    req[r].raster.called =>
      /\ req[r].raster.found => req[r].raster.bytes.owner \in {0, r}
      /\ req[r].upload.pdf =>
            req[r].raster.found /\ req[r].raster.bytes = req[r].upload

\* C2: once the accelerated path has failed for a page, no later page of the
\* same extract_text run is attempted on the accelerated path.
C2_NoRetryAfterGpuFailure ==
  \A r \in Req : \A i, j \in DOMAIN req[r].log :
    (i < j /\ req[r].log[i].gpu = "failed") => req[r].log[j].gpu \notin {"ok", "failed"}

\* C3: a failure of the accelerated backend, at construction included, never
\* ends a request with an error response.
C3_AcceleratedFailureNotSurfaced ==
  \A r \in Req :
    (req[r].status # 0 /\ req[r].raisedIn = "construct") => req[r].status = 200

\* corrected(ocr(page 1)) + "\n" + ... + corrected(ocr(page n)) + "\n"
RECURSIVE PagesText(_)
PagesText(log) ==
  IF log = <<>> THEN <<>>
  ELSE _correct_text(Head(log).text) \o <<"\n">> \o PagesText(Tail(log))

\* C4: the text extract_text returns is the corrected OCR text of pages
\* 1..n, each once and in index order, each followed by a newline, whichever
\* path preprocessed each page.
C4_PageOrder ==
  \A r \in Req :
    Returning(r) =>
      /\ Len(req[r].log) = req[r].raster.bytes.npages
      /\ \A i \in DOMAIN req[r].log : req[r].log[i].page.page = i
      /\ req[r].full_text = PagesText(req[r].log)

\* A two-page run whose pages differ in text and in preprocessing path.
C4_Witness ==
  \E r \in Req :
    /\ Returning(r)
    /\ Len(req[r].log) = 2
    /\ req[r].log[1].path = "cpu" /\ req[r].log[2].path = "gpu"
    /\ req[r].log[1].text # <<>> /\ req[r].log[2].text = <<>>

\* C5: a document whose native text layer reaches the threshold is never
\* rasterized and never OCRed.
C5_NativeShortCircuit ==
  \A r \in Req :
    (req[r].raster.called \/ req[r].log # <<>>) => req[r].upload.native < NativeThreshold

\* The acquired text holds nothing but the page separators.
Garbled(r) == \A i \in DOMAIN req[r].full_text : req[r].full_text[i] = "\n"

\* C6: a document whose pages all yield empty text is never returned as a
\* success.
C6_GarbledNeverSuccess ==
  \A r \in Req : (req[r].pc = "finally" /\ Garbled(r)) => req[r].status # 200

\* C7: an exception raised inside extract_text ends the request with 400, an
\* exception raised outside it with 500, and an exception that already
\* carries a status leaves parse_pdf with that status.
C7_FailureCauses ==
  \A r \in Req :
    req[r].status # 0 =>
      /\ req[r].raisedIn \in {"rasterize", "preprocess", "ocr"} => req[r].status = 400
      /\ req[r].raisedIn \in {"read", "construct"} => req[r].status = 500
      /\ req[r].raisedIn = "none" => req[r].status = 200
      /\ req[r].exc.type = "HTTPException" => req[r].status = req[r].exc.status_code

\* One request failed in OCR and got 400, another failed at construction and
\* got 500.
C7_Witness ==
  \E r, q \in Req :
    /\ Done(r) /\ req[r].raisedIn = "ocr" /\ req[r].status = 400
    /\ Done(q) /\ req[q].raisedIn = "construct" /\ req[q].status = 500

\* C10: when a parse_pdf call finishes, on any exit path, no file is left at
\* temp_path.
C10_TempFileRemoved ==
  [][\A r \in Req : (~Done(r) /\ Done(r)') => fsLink' = 0]_vars

\* Requests have finished after a failed upload read, after a 400 and after
\* a success, and the path is absent.
C10_Witness ==
  /\ fsLink = 0
  /\ \E r, q \in Req :
       /\ Done(r) /\ req[r].raisedIn = "read"
       /\ Done(q) /\ req[q].status = 400

====
